---- MODULE Spec2Model ----
(***************************************************************************)
(* Model of eventlet/green/zmq.py: the _QueueLock and _SimpleEvent         *)
(* primitives and the green Socket that shares one non-blocking 0mq        *)
(* socket between cooperative greenthreads.                                *)
(*                                                                         *)
(* Exactly one greenlet runs at a time (cur); a task runs until it         *)
(* switches to the hub, and the hub resumes tasks by firing timers or by   *)
(* delivering a read event of the socket's descriptor.                     *)
(***************************************************************************)
EXTENDS Integers, Sequences, FiniteSets, Bags, TLC

\* ---------------------------------------------------------------- bounds
NT == 3
MaxDepth == 2
MaxCalls == 1
MaxFrames == 2
MaxWB == 1
MaxKills == 1

Tasks == 1..NT
None == 0
Hub == 0
Dirs == {"send", "recv"}

VARIABLES
  kind,           \* the socket type given to Socket.__init__
  lock,           \* lock[d]: the _QueueLock of direction d
  evt,            \* evt[d]: the _SimpleEvent of direction d
  in_trampoline,  \* Socket._in_trampoline
  timers,         \* the hub's pending timers (a bag)
  cur,            \* the running greenlet: a task, or Hub
  pc,             \* pc[t]: where task t is
  call,           \* call[t]: the Socket call task t is in
  depth,          \* depth[t]: acquires of t not yet matched by its release
  left,           \* left[t]: calls task t may still start
  kills,          \* exceptions the hub may still throw into suspended tasks
  ext,            \* the external 0mq socket: what its operations may answer
  pending,        \* history: the tasks whose acquire() (in a program of calls
                  \*          of the socket: whose call) has not returned yet, in
                  \*          the order they called it
  wire,           \* history: wire[d] is the last frame the external handle took or gave
  ev              \* history: the last operation performed

vars == <<kind, lock, evt, in_trampoline, timers, cur, pc, call, depth,
          left, kills, ext, pending, wire, ev>>

sockVars == <<kind, evt, in_trampoline, call, wire, kills, ext>>

\* ------------------------------------------------------------ _QueueLock

\* _QueueLock.__init__
NewLock == [waiters |-> <<>>, count |-> 0, holder |-> None]

\* The condition of acquire() under which the caller queues.
MustWait_NoCount(l, t) == l.waiters # <<>> /\ l.holder # t

MustWait_NoQueue(l, t) == l.count > 0 /\ l.holder # t

MustWait_NoHolder(l, t) == l.waiters # <<>> \/ l.count > 0

MustWait(l, t) == (l.waiters # <<>> \/ l.count > 0) /\ l.holder # t

\* acquire(), the last two statements: become holder, count one more.
Take(l, t) == [l EXCEPT !.holder = t, !.count = @ + 1]

\* acquire() up to its switch to the hub, or to its end when it does not wait.
acquire(l, t) ==
  IF MustWait(l, t)
  THEN [lock |-> [l EXCEPT !.waiters = Append(@, t)], blocks |-> TRUE]
  ELSE [lock |-> Take(l, t), blocks |-> FALSE]

\* acquire() from the return of hub.switch() on: popleft, the two asserts, take.
acquire_resume(l, t) ==
  IF l.waiters = <<>>
  THEN [lock |-> l, exc |-> "IndexError"]
  ELSE LET w == Head(l.waiters)
           l1 == [l EXCEPT !.waiters = Tail(@)]
       IN IF w # t \/ l1.count # 0
          THEN [lock |-> l1, exc |-> "AssertionError"]
          ELSE [lock |-> Take(l1, t), exc |-> "none"]

release_NoWake(l) ==
  IF l.count <= 0
  THEN [lock |-> l, wake |-> {}, exc |-> "LockMisuse"]
  ELSE [lock |-> [l EXCEPT !.count = @ - 1,
                           !.holder = IF l.count = 1 THEN None ELSE @],
        wake |-> {},
        exc |-> "none"]

release_KeepHolder(l) ==
  IF l.count <= 0
  THEN [lock |-> l, wake |-> {}, exc |-> "LockMisuse"]
  ELSE [lock |-> [l EXCEPT !.count = @ - 1],
        wake |-> IF l.count = 1 /\ l.waiters # <<>>
                 THEN {Head(l.waiters)} ELSE {},
        exc |-> "none"]

release_NoCheck(l) ==
  [lock |->[l EXCEPT !.count = @ - 1,
                      !.holder = IF l.count = 1 THEN None ELSE @],
   wake |-> IF l.count = 1 /\ l.waiters # <<>> THEN {Head(l.waiters)} ELSE {},
   exc |-> "none"]

\* release(): the new lock, the task whose switch is scheduled, the exception.
release(l) ==
  IF l.count <= 0
  THEN [lock |-> l, wake |-> {}, exc |-> "LockMisuse"]
  ELSE [lock |-> [l EXCEPT !.count = @ - 1,
                           !.holder = IF l.count = 1 THEN None ELSE @],
        wake |-> IF l.count = 1 /\ l.waiters # <<>>
                 THEN {Head(l.waiters)} ELSE {},
        exc |-> "none"]

\* ------------------------------------------------------------------- hub

Timer(t, tag) == [task |-> t, tag |-> tag]

\* hub.schedule_call_global(0, t.switch)
Schedule(b, t, tag) == b (+) SetToBag({Timer(t, tag)})

ScheduleAll(b, ts, tag) == b (+) SetToBag({Timer(t, tag) : t \in ts})

\* The hub takes one copy of a due timer off its heap.
Fired(b, tm) == b (-) SetToBag({tm})

\* timer.cancel() on the timer an event holds
Cancel(b, tag) == [x \in {y \in DOMAIN b : y.tag # tag} |-> b[x]]

TimersOf(t) == {tm \in BagToSet(timers) : tm.task = t}

EventI(op, t, out, info) == [op |-> op, task |-> t, out |-> out, info |-> info]

Event(op, t, out) == EventI(op, t, out, <<>>)

NoCall == [op |-> "none"]

NoFrame == [task |-> None, idx |-> 0, noblock |-> FALSE]

\* what is remembered of the frame of call c that the external socket took or
\* gave: its place in the sequence while the sequence has frames to come
Frame(t, c) ==
  IF c.idx < c.n
  THEN [task |-> t, idx |-> c.idx, noblock |-> c.noblock]
  ELSE [task |-> None, idx |-> 0, noblock |-> c.noblock]

\* s without its first t
RECURSIVE Without(_, _)
Without(s, t) ==
  IF s = <<>> THEN s
  ELSE IF Head(s) = t THEN Tail(s) ELSE <<Head(s)>> \o Without(Tail(s), t)

\* ---------------------------------------------------------- _SimpleEvent

\* _SimpleEvent.__init__; wakeupper tells whether the event holds a timer
NewEvent == [blocked |-> None, wakeupper |-> FALSE]

\* _SimpleEvent.__nonzero__
Truth(e) == e.blocked # None

event_enter_NoCheck(e, t) == [evt |-> [e EXCEPT !.blocked = t], exc |-> "none"]

\* _SimpleEvent.__enter__
event_enter(e, t) ==
  IF e.blocked # None
  THEN [evt |-> e, exc |-> "DoubleBlock"]
  ELSE [evt |-> [e EXCEPT !.blocked = t], exc |-> "none"]

event_exit_NoCancel(e) == [evt |-> NewEvent, cancel |-> FALSE]

\* _SimpleEvent.__exit__: the new event, and whether its timer is cancelled
event_exit(e) == [evt |-> NewEvent, cancel |-> e.wakeupper]

wake_Again(e) ==
  IF e.blocked # None
  THEN [evt |-> [e EXCEPT !.wakeupper = TRUE], sched |-> {e.blocked}, ret |-> TRUE]
  ELSE [evt |-> e, sched |-> {}, ret |-> FALSE]

\* _SimpleEvent.wake: the new event, the task whose switch is scheduled
wake(e) ==
  IF e.blocked # None /\ ~e.wakeupper
  THEN [evt |-> [e EXCEPT !.wakeupper = TRUE], sched |-> {e.blocked}, ret |-> TRUE]
  ELSE [evt |-> e, sched |-> {}, ret |-> FALSE]

\* ---------------------------------------------------------------- Socket

Kinds == {"PUB", "SUB", "PUSH", "PULL", "PAIR", "XREP", "XREQ", "REQ", "REP"}

send_only_ops == [send |-> "xsafe", recv |-> "none"]

recv_only_ops == [send |-> "none", recv |-> "xsafe"]

full_ops == [send |-> "xsafe", recv |-> "xsafe"]

no_ops == [send |-> "plain", recv |-> "plain"]

\* Socket._eventlet_ops.get(socket_type); a type without an entry keeps the
\* send and recv of the class
eventlet_ops(k) ==
  CASE k \in {"PUB", "PUSH"} -> send_only_ops
    [] k \in {"SUB", "PULL"} -> recv_only_ops
    [] k \in {"PAIR", "XREP", "XREQ"} -> full_ops
    [] OTHER -> no_ops

\* Socket.__init__: what self.send / self.recv (and the multipart ones) are
\* bound to: "xsafe", "plain" (the methods of the class) or "unsupported"
Strategy(k, d) ==
  IF eventlet_ops(k)[d] = "none" THEN "unsupported" ELSE eventlet_ops(k)[d]

Opp(d) == IF d = "send" THEN "recv" ELSE "send"

EvTag(d) == IF d = "send" THEN "evt_send" ELSE "evt_recv"

\* The objects a call works on, threaded through the statements of a step.
Here == [lock |-> lock, evt |-> evt, timers |-> timers, flag |-> in_trampoline]

Commit(s) ==
  /\ lock' = s.lock
  /\ evt' = s.evt
  /\ timers' = s.timers
  /\ in_trampoline' = s.flag

WakeGate_Never(s, d) == s

\* self._X_event.wake() guarded by "if self._X_event:"
WakeGate(s, d) ==
  IF Truth(s.evt[d])
  THEN LET w == wake(s.evt[d])
       IN [s EXCEPT !.evt[d] = w.evt,
                    !.timers = ScheduleAll(@, w.sched, EvTag(d))]
  ELSE s

\* the end of "with evt:"
LeaveGate(s, d) ==
  LET x == event_exit(s.evt[d])
  IN [s EXCEPT !.evt[d] = x.evt,
               !.timers = IF x.cancel THEN Cancel(@, EvTag(d)) ELSE @]

\* "with self._X_lock:" ends n times, innermost first; an exception of release()
\* replaces the one in flight
RECURSIVE Unwind(_, _, _, _)
Unwind(s, d, n, exc) ==
  IF n = 0 THEN [s |-> s, exc |-> exc]
  ELSE LET r == release(s.lock[d])
           s1 == [s EXCEPT !.lock[d] = r.lock,
                           !.timers = ScheduleAll(@, r.wake, "lock")]
       IN Unwind(s1, d, n - 1, IF r.exc = "none" THEN exc ELSE r.exc)

trampoline_enter_NoFlag(s, d, t) ==
  LET e == event_enter(s.evt[d], t)
  IN IF e.exc # "none"
     THEN [s |-> s, exc |-> e.exc, pc |-> "run"]
     ELSE [s |-> [s EXCEPT !.flag = TRUE, !.evt[d] = e.evt],
           exc |-> "none", pc |-> "tramp_wait"]

\* Socket._trampoline up to the switch to the hub: the new objects, the
\* exception raised, and where the task is suspended
trampoline_enter(s, d, t) ==
  LET e == event_enter(s.evt[d], t)
  IN IF s.flag
     THEN \* evt.block()
          IF e.exc # "none"
          THEN [s |-> s, exc |-> e.exc, pc |-> "run"]
          ELSE [s |-> [s EXCEPT !.evt[d] = e.evt],
                exc |-> "none", pc |-> "evt_block"]
     ELSE \* self._in_trampoline = True; with evt: trampoline(fd, read=True)
          IF e.exc # "none"
          THEN [s |-> [s EXCEPT !.flag = FALSE], exc |-> e.exc, pc |-> "run"]
          ELSE [s |-> [s EXCEPT !.flag = TRUE, !.evt[d] = e.evt],
                exc |-> "none", pc |-> "tramp_wait"]

\* Socket._trampoline from the return of the hub's switch on (a return or an
\* exception thrown into the task): the gate is left, and the flag is cleared
\* when the task was in trampoline()
trampoline_leave(s, d, at) ==
  IF at = "tramp_wait"
  THEN [LeaveGate(s, d) EXCEPT !.flag = FALSE]
  ELSE LeaveGate(s, d)

\* The external socket. AnySocket answers an operation in any way (at most
\* MaxWB times EAGAIN to one call) and its descriptor may be readable at any
\* time. A socket of mode "edge" follows the implementation notes: an operation
\* succeeds exactly when the socket is ready for its direction, the descriptor
\* becomes readable when the socket gets ready, and every send / recv reads
\* the pending events off the descriptor.
AnySocket == [mode |-> "any", ready |-> {}, fd |-> FALSE, dir |-> "send"]

EdgeSocket(d) == [mode |-> "edge", ready |-> {}, fd |-> FALSE, dir |-> d]

\* the outcomes of a non-blocking operation of the external socket
Outcomes(c) ==
  IF ext.mode = "any"
  THEN IF c.wbs < MaxWB THEN {"ok", "EAGAIN", "err"} ELSE {"ok", "err"}
  ELSE IF c.op \in ext.ready THEN {"ok"} ELSE {"EAGAIN"}

\* the counters of a call are kept for the socket that bounds them
Count(x) == IF ext.mode = "any" THEN x + 1 ELSE x

\* A step of a call ends in a record: the objects (s), where the task is then
\* (pc; "run" when the call is over), its call record, and the exception that
\* ends the call ("none": a normal return).
Go(s, where, c) == [s |-> s, pc |-> where, call |-> c, exc |-> "none"]

Raise_NoUnwind(s, c, exc) == [s |-> s, pc |-> "run", call |-> c, exc |-> exc]

\* the call ends: every "with self._X_lock:" still open is left
Raise(s, c, exc) ==
  LET u == Unwind(s, c.op, c.held, exc)
  IN [s |-> u.s, pc |-> "run", call |-> c, exc |-> u.exc]

\* a frame was sent or received: send_multipart / recv_multipart go on to the
\* next frame, a single call or the last frame returns
FrameDone(s, c) ==
  IF c.idx < c.n
  THEN Go(s, "enter", [c EXCEPT !.idx = @ + 1])
  ELSE Raise(s, c, "none")

\* "return result" inside "with self._X_lock:" of _xsafe_send / _xsafe_recv
LeaveFrame(s, c) ==
  LET u == Unwind(s, c.op, 1, "none")
      c1 == [c EXCEPT !.held = @ - 1]
  IN IF u.exc # "none" THEN Raise(u.s, c1, u.exc) ELSE FrameDone(u.s, c1)

\* the suspension in Socket._trampoline, or the exception it raises
Suspend(tr, c) ==
  [s |-> tr.s, pc |-> tr.pc, call |-> [c EXCEPT !.susp = Count(@)], exc |-> "none"]

\* Socket._xsafe_send without NOBLOCK: one pass of the loop, from the attempt
\* on the external socket (outcome o) to the return, the raise or the switch to
\* the hub in _trampoline. The finally clause runs at once on "ok" and "err",
\* and on EAGAIN after _trampoline (xsafe_resumed, or here when it raises).
xsafe_send_attempt(s, t, c, o) ==
  CASE o = "ok" -> LeaveFrame(WakeGate(s, "recv"), c)
    [] o = "err" -> Raise(WakeGate(s, "recv"), c, "ZMQError")
    [] OTHER ->
         LET tr == trampoline_enter(s, "send", t)
         IN IF tr.exc # "none"
            THEN Raise(WakeGate(tr.s, "recv"), c, tr.exc)
            ELSE Suspend(tr, c)

\* Socket._xsafe_recv without NOBLOCK: one pass of the loop. The inner finally
\* clause wakes the send gate right after the attempt, whatever its outcome.
xsafe_recv_attempt(s, t, c, o) ==
  LET s1 == WakeGate(s, "send")
  IN CASE o = "ok" -> LeaveFrame(s1, c)
       [] o = "err" -> Raise(s1, c, "ZMQError")
       [] OTHER ->
            LET tr == trampoline_enter(s1, "recv", t)
            IN IF tr.exc # "none" THEN Raise(tr.s, c, tr.exc) ELSE Suspend(tr, c)

\* Socket.send / Socket.recv of the class without NOBLOCK: one pass of the loop
plain_attempt(s, t, c, o) ==
  CASE o = "ok" -> FrameDone(s, c)
    [] o = "err" -> Raise(s, c, "ZMQError")
    [] OTHER ->
         LET tr == trampoline_enter(s, c.op, t)
         IN IF tr.exc # "none" THEN Raise(tr.s, c, tr.exc) ELSE Suspend(tr, c)

\* the NOBLOCK paths: one attempt, its error raised to the caller. In
\* _xsafe_send / _xsafe_recv a success with a task recorded on a gate goes on to
\* call the global name getsockopt, which the module does not define.
noblock_attempt(s, t, c, o, strat) ==
  CASE o = "ok" ->
         IF strat = "xsafe" /\ (Truth(s.evt["send"]) \/ Truth(s.evt["recv"]))
         THEN Raise(s, c, "NameError")
         ELSE FrameDone(s, c)
    [] o = "err" -> Raise(s, c, "ZMQError")
    [] OTHER -> Raise(s, c, "EAGAIN")

attempt_NoRetry(s, t, c, o, strat) == noblock_attempt(s, t, c, o, strat)

\* the attempt of task t's call c, by the method self.send / self.recv is bound to
attempt(s, t, c, o, strat) ==
  IF c.noblock THEN noblock_attempt(s, t, c, o, strat)
  ELSE IF strat = "plain" THEN plain_attempt(s, t, c, o)
  ELSE IF c.op = "send" THEN xsafe_send_attempt(s, t, c, o)
  ELSE xsafe_recv_attempt(s, t, c, o)

\* after the hub's switch returned in _trampoline: leave it, and in _xsafe_send
\* run the finally clause of the pass
after_trampoline(s, c, strat, at) ==
  LET s1 == trampoline_leave(s, c.op, at)
  IN IF strat = "xsafe" /\ c.op = "send" THEN WakeGate(s1, "recv") ELSE s1

\* "with self._X_lock:" of a call, up to the switch to the hub in acquire()
enter_lock(s, t, c, who, next) ==
  LET a == acquire(s.lock[c.op], t)
      s1 == [s EXCEPT !.lock[c.op] = a.lock]
  IN IF a.blocks
     THEN Go(s1, "lock_wait", [c EXCEPT !.at = who])
     ELSE Go(s1, next, [c EXCEPT !.held = @ + 1])

begin_call_NoLock(s, t, c, strat) == Go(s, "enter", c)

\* the call begins: _xsafe_send_multipart and _xsafe_recv_multipart without
\* NOBLOCK take the lock around the send_multipart / recv_multipart of pyzmq,
\* which sends or receives the frames one by one with self.send / self.recv
begin_call(s, t, c, strat) ==
  IF c.multi /\ ~c.noblock /\ strat = "xsafe"
  THEN enter_lock(s, t, c, "outer", "enter")
  ELSE Go(s, "enter", c)

Suspended == {"lock_wait", "tramp_wait", "evt_block"}

\* the step of task t ends as r says
Apply(t, r) ==
  /\ Commit(r.s)
  /\ pc' = [pc EXCEPT ![t] = r.pc]
  /\ cur' = IF r.pc \in Suspended THEN Hub ELSE t
  /\ call' = [call EXCEPT ![t] = IF r.pc = "run" THEN NoCall ELSE r.call]
  /\ pending' = IF r.pc = "run" THEN Without(pending, t) ELSE pending

Outcome(r) ==
  IF r.pc # "run" THEN r.pc ELSE IF r.exc = "none" THEN "ok" ELSE r.exc

NewCall(d, multi, noblock, n) ==
  [op |-> d, multi |-> multi, noblock |-> noblock, n |-> n, idx |-> 1,
   held |-> 0, at |-> "none", attempts |-> 0, wbs |-> 0, susp |-> 0]

\* the positional arguments a caller may pass after self: send(msg, flags,
\* copy, track), send_multipart(msg_parts, flags, copy, track), recv(flags,
\* copy, track), recv_multipart(flags, copy, track)
ArgCounts(d) == IF d = "send" THEN 1..4 ELSE 0..3

\* Socket._send_not_supported(self, msg, flags, copy, track), which __init__
\* binds to send, send_multipart, recv and recv_multipart alike: its four
\* parameters have no defaults
send_not_supported(nargs) == IF nargs = 4 THEN "ENOTSUP" ELSE "TypeError"

\* task t calls send, send_multipart, recv or recv_multipart of a socket whose
\* type does not support the direction
SCallUnsupported(t) ==
  /\ cur = t /\ pc[t] = "run" /\ left[t] > 0
  /\ \E d \in Dirs, multi \in BOOLEAN, nargs \in 0..4 :
       /\ Strategy(kind, d) = "unsupported"
       /\ nargs \in ArgCounts(d)
       /\ ev' = EventI("unsupported", t, send_not_supported(nargs),
                       [dir |-> d, multi |-> multi, nargs |-> nargs])
  /\ left' = [left EXCEPT ![t] = @ - 1]
  /\ UNCHANGED <<lock, timers, cur, pc, depth, pending, sockVars>>

\* task t calls send, send_multipart, recv or recv_multipart; the multipart
\* methods of a multi-task-safe socket take the lock around all the frames
SCall(t) ==
  /\ cur = t /\ pc[t] = "run" /\ left[t] > 0
  /\ \E d \in Dirs, multi \in BOOLEAN, noblock \in BOOLEAN, n \in 1..MaxFrames :
       /\ Strategy(kind, d) # "unsupported"
       /\ multi \/ n = 1
       /\ ext.mode = "any" \/ (d = ext.dir /\ ~noblock)
       /\ LET c == NewCall(d, multi, noblock, n)
              r == begin_call(Here, t, c, Strategy(kind, d))
          IN /\ pc' = [pc EXCEPT ![t] = r.pc]
             /\ cur' = IF r.pc \in Suspended THEN Hub ELSE t
             /\ call' = [call EXCEPT ![t] = r.call]
             /\ lock' = r.s.lock
             /\ ev' = EventI("call", t, r.pc, r.call)
  /\ left' = [left EXCEPT ![t] = @ - 1]
  /\ pending' = Append(pending, t)
  /\ UNCHANGED <<evt, in_trampoline, timers, depth, kind, wire, kills, ext>>

\* the send / recv of one frame begins: _xsafe_send and _xsafe_recv without
\* NOBLOCK take the lock of their direction
SEnter(t) ==
  /\ cur = t /\ pc[t] = "enter"
  /\ LET c == [call[t] EXCEPT !.attempts = 0, !.wbs = 0, !.susp = 0]
         r == IF ~c.noblock /\ Strategy(kind, c.op) = "xsafe"
              THEN enter_lock(Here, t, c, "frame", "attempt")
              ELSE Go(Here, "attempt", c)
     IN /\ Apply(t, r)
        /\ ev' = EventI("enter", t, r.pc, r.call)
  /\ UNCHANGED <<left, depth, kind, wire, kills, ext>>

\* hub: a timer switches to task t, which is suspended in acquire()
SResumeAcquire(t) ==
  /\ cur = Hub /\ pc[t] = "lock_wait"
  /\ \E tm \in TimersOf(t) :
       LET c == call[t]
           s == [Here EXCEPT !.timers = Fired(@, tm)]
           a == acquire_resume(s.lock[c.op], t)
           s1 == [s EXCEPT !.lock[c.op] = a.lock]
           r == IF a.exc # "none" THEN Raise(s1, c, a.exc)
                ELSE Go(s1, IF c.at = "outer" THEN "enter" ELSE "attempt",
                        [c EXCEPT !.held = @ + 1, !.at = "none"])
       IN /\ Apply(t, r)
          /\ ev' = EventI("acquire", t, IF a.exc = "none" THEN "resumed" ELSE a.exc, c)
  /\ UNCHANGED <<left, depth, kind, wire, kills, ext>>

\* task t calls send / recv of the external socket with NOBLOCK set
SAttempt(t) ==
  /\ cur = t /\ pc[t] = "attempt"
  /\ \E o \in Outcomes(call[t]) :
       LET c == [call[t] EXCEPT !.attempts = Count(@),
                                !.wbs = IF o = "EAGAIN" THEN Count(@) ELSE @]
           r == attempt(Here, t, c, o, Strategy(kind, c.op))
       IN /\ Apply(t, r)
          /\ wire' = IF o = "ok" THEN [wire EXCEPT ![c.op] = Frame(t, c)] ELSE wire
          /\ ev' = EventI("attempt", t, Outcome(r),
                          [c EXCEPT !.at = o, !.susp = r.call.susp])
  /\ ext' = [ext EXCEPT !.fd = FALSE]
  /\ UNCHANGED <<left, depth, kind, kills>>

\* hub: a timer switches to task t, which is suspended in _trampoline
SResume(t) ==
  /\ cur = Hub /\ pc[t] \in {"tramp_wait", "evt_block"}
  /\ \E tm \in TimersOf(t) :
       LET c == call[t]
           s == [Here EXCEPT !.timers = Fired(@, tm)]
       IN /\ Apply(t, Go(after_trampoline(s, c, Strategy(kind, c.op), pc[t]),
                         "attempt", c))
          /\ ev' = EventI("resume", t, tm.tag, c)
  /\ UNCHANGED <<left, depth, kind, wire, kills, ext>>

\* hub: the descriptor of the socket is readable; the listener of the task in
\* trampoline() switches to it
SFdEvent(t) ==
  /\ cur = Hub /\ pc[t] = "tramp_wait"
  /\ ext.mode = "any" \/ ext.fd
  /\ LET c == call[t]
     IN /\ Apply(t, Go(after_trampoline(Here, c, Strategy(kind, c.op), pc[t]),
                       "attempt", c))
        /\ ev' = EventI("resume", t, "fd", c)
  /\ UNCHANGED <<left, depth, kind, wire, kills, ext>>

\* hub: an exception (a kill, a timeout of a higher layer) is thrown into the
\* suspended task t
SKill(t) ==
  /\ cur = Hub /\ pc[t] \in Suspended /\ kills > 0
  /\ LET c == call[t]
         s == IF pc[t] = "lock_wait" THEN Here
              ELSE after_trampoline(Here, c, Strategy(kind, c.op), pc[t])
     IN /\ Apply(t, Raise(s, c, "Killed"))
        /\ ev' = EventI("kill", t, pc[t], c)
  /\ kills' = kills - 1
  /\ UNCHANGED <<left, depth, kind, wire, ext>>

\* hub: a timer switches to a greenthread that has ended
HubDead(t) ==
  /\ cur = Hub /\ pc[t] = "done"
  /\ \E tm \in TimersOf(t) : timers' = Fired(timers, tm)
  /\ ev' = Event("dead", t, "none")
  /\ UNCHANGED <<lock, cur, pc, depth, left, pending, sockVars>>

\* --------------------------------------------------- a program of tasks
\* that use one _QueueLock (lock["send"]) directly

TheLock == lock["send"]

\* hub: a timer starts a new greenthread, or ends the sleep of one
HubRun(t) ==
  /\ cur = Hub
  /\ pc[t] \in {"new", "sleep"}
  /\ \E tm \in TimersOf(t) : timers' = Fired(timers, tm)
  /\ cur' = t
  /\ pc' = [pc EXCEPT ![t] = "run"]
  /\ ev' = Event("run", t, "none")
  /\ UNCHANGED <<lock, depth, left, pending, sockVars>>

\* task t calls acquire()
LAcquire(t) ==
  /\ cur = t /\ pc[t] = "run"
  /\ depth[t] < MaxDepth
  /\ LET a == acquire(TheLock, t)
     IN /\ lock' = [lock EXCEPT !["send"] = a.lock]
        /\ IF a.blocks
           THEN /\ pc' = [pc EXCEPT ![t] = "lock_wait"]
                /\ cur' = Hub
                /\ pending' = Append(pending, t)
                /\ ev' = Event("acquire", t, "queued")
                /\ UNCHANGED depth
           ELSE /\ depth' = [depth EXCEPT ![t] = @ + 1]
                /\ ev' = Event("acquire", t,
                               IF depth[t] = 0 THEN "taken" ELSE "nested")
                /\ UNCHANGED <<pc, cur, pending>>
  /\ UNCHANGED <<timers, left, sockVars>>

\* hub: a timer switches to task t, which is suspended in acquire()
LResumeAcquire(t) ==
  /\ cur = Hub
  /\ pc[t] = "lock_wait"
  /\ \E tm \in TimersOf(t) : timers' = Fired(timers, tm)
  /\ LET a == acquire_resume(TheLock, t)
     IN /\ lock' = [lock EXCEPT !["send"] = a.lock]
        /\ depth' = [depth EXCEPT ![t] = IF a.exc = "none" THEN @ + 1 ELSE @]
        /\ ev' = Event("acquire", t, IF a.exc = "none" THEN "resumed" ELSE a.exc)
  /\ pending' = Without(pending, t)
  /\ cur' = t
  /\ pc' = [pc EXCEPT ![t] = "run"]
  /\ UNCHANGED <<left, sockVars>>

\* the release() call of task t, whatever t holds
DoRelease(t) ==
  /\ cur = t /\ pc[t] = "run"
  /\ LET r == release(TheLock)
     IN /\ lock' = [lock EXCEPT !["send"] = r.lock]
        /\ timers' = ScheduleAll(timers, r.wake, "lock")
        /\ depth' = [depth EXCEPT ![t] = IF r.exc = "none" /\ @ > 0 THEN @ - 1 ELSE @]
        /\ ev' = Event("release", t,
                       IF r.exc # "none" THEN r.exc
                       ELSE IF r.lock.count = 0 THEN "freed" ELSE "nested")
  /\ UNCHANGED <<cur, pc, left, pending, sockVars>>

\* task t calls release() to match an acquire() of its own
LRelease(t) == depth[t] > 0 /\ DoRelease(t)

\* task t calls release() although it has no acquire() of its own to match
LReleaseUnmatched(t) == depth[t] = 0 /\ DoRelease(t)

\* task t calls eventlet.sleep(0): a timer for itself, then the hub runs
LSleep(t) ==
  /\ cur = t /\ pc[t] = "run"
  /\ timers' = Schedule(timers, t, "sleep")
  /\ pc' = [pc EXCEPT ![t] = "sleep"]
  /\ cur' = Hub
  /\ ev' = Event("sleep", t, "none")
  /\ UNCHANGED <<lock, depth, left, pending, sockVars>>

\* the function of greenthread t returns
LFinish(t) ==
  /\ cur = t /\ pc[t] = "run"
  /\ pc' = [pc EXCEPT ![t] = "done"]
  /\ cur' = Hub
  /\ ev' = Event("finish", t, "none")
  /\ UNCHANGED <<lock, timers, depth, left, pending, sockVars>>

InitCommon ==
  /\ lock = [d \in Dirs |-> NewLock]
  /\ evt = [d \in Dirs |-> NewEvent]
  /\ in_trampoline = FALSE
  /\ timers = SetToBag({Timer(t, "spawn") : t \in Tasks})
  /\ cur = Hub
  /\ pc = [t \in Tasks |-> "new"]
  /\ call = [t \in Tasks |-> NoCall]
  /\ depth = [t \in Tasks |-> 0]
  /\ pending = <<>>
  /\ wire = [d \in Dirs |-> NoFrame]
  /\ ev = Event("init", None, "none")

InitLock ==
  /\ InitCommon
  /\ kind = "PAIR"
  /\ left = [t \in Tasks |-> 0]
  /\ kills = 0
  /\ ext = AnySocket

NextLock ==
  \E t \in Tasks :
    \/ HubRun(t)
    \/ LAcquire(t)
    \/ LResumeAcquire(t)
    \/ LRelease(t)
    \/ LSleep(t)
    \/ LFinish(t)

\* tasks that release only what they acquired
SpecLock == InitLock /\ [][NextLock]_vars

NextLockAny == NextLock \/ \E t \in Tasks : LReleaseUnmatched(t)

\* tasks that call acquire() and release() in any order
SpecLockAny == InitLock /\ [][NextLockAny]_vars

\* the function of greenthread t returns: it makes no further call
SFinish(t) ==
  /\ cur = t /\ pc[t] = "run"
  /\ pc' = [pc EXCEPT ![t] = "done"]
  /\ cur' = Hub
  /\ left' = [left EXCEPT ![t] = 0]
  /\ ev' = Event("finish", t, "none")
  /\ UNCHANGED <<lock, timers, depth, pending, sockVars>>

InitSock ==
  /\ InitCommon
  /\ kind \in Kinds
  /\ left = [t \in Tasks |-> MaxCalls]
  /\ kills = MaxKills
  /\ ext = AnySocket

Next ==
  \E t \in Tasks :
    \/ HubRun(t)
    \/ SCallUnsupported(t)
    \/ SCall(t)
    \/ SEnter(t)
    \/ SResumeAcquire(t)
    \/ SAttempt(t)
    \/ SResume(t)
    \/ SFdEvent(t)
    \/ SKill(t)
    \/ HubDead(t)
    \/ SFinish(t)

\* tasks that share one green Socket
Spec == InitSock /\ [][Next]_vars

\* ------------------------------------------- a program of tasks that call
\* Socket._trampoline and the wake() of the two gates directly

\* task t calls self._trampoline(is_send)
GTrampoline(t) ==
  /\ cur = t /\ pc[t] = "run"
  /\ \E d \in Dirs :
       LET tr == trampoline_enter(Here, d, t)
       IN /\ Commit(tr.s)
          /\ pc' = [pc EXCEPT ![t] = tr.pc]
          /\ cur' = IF tr.exc = "none" THEN Hub ELSE t
          /\ call' = [call EXCEPT ![t] =
                        IF tr.exc = "none" THEN NewCall(d, FALSE, FALSE, 1) ELSE NoCall]
          /\ ev' = EventI("trampoline", t, IF tr.exc = "none" THEN tr.pc ELSE tr.exc, d)
  /\ UNCHANGED <<kind, depth, left, kills, ext, pending, wire>>

\* task t calls wake() of a gate
GWake(t) ==
  /\ cur = t /\ pc[t] = "run"
  /\ \E d \in Dirs :
       LET w == wake(evt[d])
       IN /\ evt' = [evt EXCEPT ![d] = w.evt]
          /\ timers' = ScheduleAll(timers, w.sched, EvTag(d))
          /\ ev' = EventI("wake", t, IF w.ret THEN "true" ELSE "false", d)
  /\ UNCHANGED <<kind, lock, in_trampoline, cur, pc, call, depth, left, kills,
                 ext, pending, wire>>

\* task t, suspended in _trampoline, goes on: _trampoline returns or raises
GLeave(t, s, op, out) ==
  /\ Commit(trampoline_leave(s, call[t].op, pc[t]))
  /\ pc' = [pc EXCEPT ![t] = "run"]
  /\ cur' = t
  /\ call' = [call EXCEPT ![t] = NoCall]
  /\ ev' = EventI(op, t, out,
                  [dir |-> call[t].op,
                   cancel |-> \E tm \in BagToSet(s.timers) : tm.tag = EvTag(call[t].op)])
  /\ UNCHANGED <<kind, depth, left, ext, pending, wire>>

\* hub: a timer switches to task t, which is suspended in _trampoline
GResume(t) ==
  /\ cur = Hub /\ pc[t] \in {"tramp_wait", "evt_block"}
  /\ \E tm \in TimersOf(t) :
       GLeave(t, [Here EXCEPT !.timers = Fired(@, tm)], "resume", tm.tag)
  /\ UNCHANGED kills

\* hub: the descriptor is readable; the listener switches to the task in
\* trampoline()
GFdEvent(t) ==
  /\ cur = Hub /\ pc[t] = "tramp_wait"
  /\ GLeave(t, Here, "resume", "fd")
  /\ UNCHANGED kills

\* hub: an exception is thrown into task t, which is suspended in _trampoline
GKill(t) ==
  /\ cur = Hub /\ pc[t] \in {"tramp_wait", "evt_block"} /\ kills > 0
  /\ GLeave(t, Here, "kill", pc[t])
  /\ kills' = kills - 1

InitGate ==
  /\ InitCommon
  /\ kind = "REQ"
  /\ left = [t \in Tasks |-> 0]
  /\ kills = MaxKills
  /\ ext = AnySocket

NextGate ==
  \E t \in Tasks :
    \/ HubRun(t)
    \/ GTrampoline(t)
    \/ GWake(t)
    \/ GResume(t)
    \/ GFdEvent(t)
    \/ GKill(t)
    \/ LFinish(t)

\* tasks that wait on the gates and wake them in any order
SpecGate == InitGate /\ [][NextGate]_vars

\* ------------------------------------- tasks that all send, or all receive,
\* on a multi-task-safe socket that gets ready once and stays ready

\* the external socket becomes ready for the direction of the tasks
Ready ==
  /\ ext.mode = "edge"
  /\ ext.dir \notin ext.ready
  /\ ext' = [ext EXCEPT !.ready = @ \cup {ext.dir}, !.fd = TRUE]
  /\ ev' = Event("ready", None, ext.dir)
  /\ UNCHANGED <<kind, lock, evt, in_trampoline, timers, cur, pc, call, depth,
                 left, kills, pending, wire>>

InitLive ==
  /\ InitCommon
  /\ \E d \in Dirs :
       /\ ext = EdgeSocket(d)
       /\ kind \in {k \in Kinds : Strategy(k, d) = "xsafe"}
  /\ left = [t \in Tasks |-> 1]
  /\ kills = 0

NextLive ==
  \/ Ready
  \/ \E t \in Tasks :
       \/ HubRun(t)
       \/ SCall(t)
       \/ SEnter(t)
       \/ SResumeAcquire(t)
       \/ SAttempt(t)
       \/ SFdEvent(t)
       \/ SFinish(t)

\* The hub runs while it has a timer or a readable descriptor, a running task
\* goes on until it suspends, and the socket does get ready.
SpecLive == InitLive /\ [][NextLive]_vars /\ WF_vars(NextLive)

\* --------------------------------- a sender and a receiver on a full-duplex
\* multi-task-safe socket that is never ready

\* an external socket that answers EAGAIN to every operation and whose
\* descriptor never becomes readable
NeverSocket == [mode |-> "never", ready |-> {}, fd |-> FALSE, dir |-> "send"]

\* task 1 sends, the other tasks receive
QDir(t) == IF t = 1 THEN "send" ELSE "recv"

\* task t makes its blocking call: send or send_multipart for the sender, recv
\* or recv_multipart for a receiver
QCall(t) ==
  /\ cur = t /\ pc[t] = "run" /\ left[t] > 0
  /\ \E multi \in BOOLEAN, n \in 1..MaxFrames :
       /\ multi \/ n = 1
       /\ LET c == NewCall(QDir(t), multi, FALSE, n)
              r == begin_call(Here, t, c, Strategy(kind, QDir(t)))
          IN /\ pc' = [pc EXCEPT ![t] = r.pc]
             /\ cur' = IF r.pc \in Suspended THEN Hub ELSE t
             /\ call' = [call EXCEPT ![t] = r.call]
             /\ lock' = r.s.lock
             /\ ev' = EventI("call", t, r.pc, r.call)
  /\ left' = [left EXCEPT ![t] = @ - 1]
  /\ pending' = Append(pending, t)
  /\ UNCHANGED <<evt, in_trampoline, timers, depth, kind, wire, kills, ext>>

InitQuiet ==
  /\ InitCommon
  /\ kind \in {k \in Kinds : eventlet_ops(k) = full_ops}
  /\ left = [t \in Tasks |-> 1]
  /\ kills = 0
  /\ ext = NeverSocket

NextQuiet ==
  \E t \in Tasks :
    \/ HubRun(t)
    \/ QCall(t)
    \/ SEnter(t)
    \/ SAttempt(t)
    \/ SResume(t)
    \/ SFinish(t)

\* The hub runs while it has a timer and a running task goes on until it
\* suspends or ends.
SpecQuiet == InitQuiet /\ [][NextQuiet]_vars /\ WF_vars(NextQuiet)

\* ------------------------------------- the lock program with cancellation

\* hub: an exception (a timeout of a higher layer) is thrown into task t, which
\* is suspended in acquire(): it leaves acquire() at the switch, and nothing
\* takes it out of the queue
LKill(t) ==
  /\ cur = Hub /\ pc[t] = "lock_wait" /\ kills > 0
  /\ kills' = kills - 1
  /\ cur' = t
  /\ pc' = [pc EXCEPT ![t] = "run"]
  /\ pending' = Without(pending, t)
  /\ ev' = Event("kill", t, "lock_wait")
  /\ UNCHANGED <<kind, lock, evt, in_trampoline, timers, call, depth, left, ext, wire>>

InitLockKill ==
  /\ InitCommon
  /\ kind = "PAIR"
  /\ left = [t \in Tasks |-> 0]
  /\ kills = MaxKills
  /\ ext = AnySocket

NextLockKill ==
  \E t \in Tasks :
    \/ HubRun(t)
    \/ LAcquire(t)
    \/ LResumeAcquire(t)
    \/ LRelease(t)
    \/ LSleep(t)
    \/ LFinish(t)
    \/ LKill(t)
    \/ HubDead(t)

\* The hub runs while it has a timer, a running task goes on until it suspends
\* or ends, and a switch that release() scheduled is not put off for ever.
SpecLockKill ==
  /\ InitLockKill /\ [][NextLockKill]_vars
  /\ WF_vars(NextLockKill)
  /\ SF_vars(\E t \in Tasks : LResumeAcquire(t))

\* ---------------------------------------------------------------- claims

LockTimers == {tm \in BagToSet(timers) : tm.tag = "lock"}

InCS == {t \in Tasks : depth[t] > 0}

\* at most one task is between the return of its acquire() and its matching
\* outermost release(), and that task is the recorded holder
MutexInv ==
  /\ Cardinality(InCS) <= 1
  /\ \A t \in InCS : TheLock.holder = t /\ TheLock.count = depth[t]

\* acquire() returns to a task that was not the holder only from hold count 0
GrantFromFree ==
  (ev'.op = "acquire" /\ ev'.out \in {"taken", "resumed"}) => TheLock.count = 0

\* C1: mutual exclusion of _QueueLock: for tasks that release only what they
\* acquired, at most one task at a time is between the return of acquire() and
\* its outermost release(), and acquire() returns to a task that is not already
\* the holder only when the hold count is 0.
C1_MutualExclusion == []MutexInv /\ [][GrantFromFree]_vars

\* a task holds the lock, suspended inside its critical section, while two
\* other tasks are queued
C1_Witness ==
  /\ cur = Hub
  /\ \E t \in Tasks : depth[t] > 0 /\ pc[t] = "sleep"
  /\ Len(TheLock.waiters) >= 2

\* what each acquire() step does to the order of the tasks
FifoStep ==
  ev'.op = "acquire" =>
    LET t == ev'.task
    IN /\ ev'.out \in {"taken", "nested", "queued", "resumed"}
       /\ (TheLock.count = 0 /\ TheLock.waiters # <<>> /\ cur = t)
            => /\ ev'.out = "queued"
               /\ lock'["send"].waiters = Append(TheLock.waiters, t)
       /\ ev'.out = "taken" => pending = <<>>
       /\ ev'.out = "resumed"
            => /\ Head(pending) = t
               /\ Head(TheLock.waiters) = t
               /\ TheLock.count = 0
               /\ InCS = {}

\* a scheduled wake-up of the lock is for the head of the queue of a free lock
WakeIsForHead ==
  \A tm \in LockTimers :
    /\ TheLock.count = 0
    /\ TheLock.waiters # <<>>
    /\ Head(TheLock.waiters) = tm.task

\* C2: strict FIFO, no barging: the lock is granted in the order of the
\* acquire() calls and one critical section ends before the next grant; a task
\* that calls acquire() while the hold count is 0 and the queue is not empty is
\* queued at the tail; the task resumed after a release is the head of the queue
\* and finds hold count 0.
C2_Fifo == []WakeIsForHead /\ [][FifoStep]_vars

\* every task is queued on the free lock: the head was scheduled by a release,
\* the others called acquire() after it (the releasing task among them)
C2_Witness ==
  /\ TheLock.count = 0
  /\ Len(TheLock.waiters) = NT
  /\ LockTimers # {}
  /\ ev.op = "acquire" /\ ev.out = "queued"

ReentrantStep ==
  /\ (ev'.op = "acquire" /\ TheLock.holder = ev'.task)
       => /\ ev'.out = "nested"
          /\ cur' = cur
          /\ lock'["send"] = [TheLock EXCEPT !.count = @ + 1]
          /\ timers' = timers
  /\ (ev'.op = "release" /\ ev'.out \in {"freed", "nested"})
       => /\ lock'["send"].count = TheLock.count - 1
          /\ cur' = cur
          /\ lock'["send"].count > 0
               => /\ ev'.out = "nested"
                  /\ lock'["send"].holder = TheLock.holder
                  /\ lock'["send"].waiters = TheLock.waiters
                  /\ timers' = timers
          /\ lock'["send"].count = 0 => lock'["send"].holder = None

\* C8: reentrancy: the holder acquires again without suspending, also when
\* other tasks are queued; each nested acquire() adds 1 to the hold count and
\* each release() takes 1 off; the holder stays and no waiter is scheduled
\* until the release() that brings the count to 0.
C8_Reentrancy == [][ReentrantStep]_vars

\* the holder has just acquired the lock a second time while a task is queued
C8_Witness ==
  /\ ev.op = "acquire" /\ ev.out = "nested"
  /\ TheLock.count = 2
  /\ TheLock.waiters # <<>>

MisuseStep ==
  ev'.op = "release" =>
    /\ TheLock.count = 0
         => /\ ev'.out = "LockMisuse"
            /\ lock' = lock
            /\ timers' = timers
            /\ cur' = cur
    /\ ev'.out = "LockMisuse" => TheLock.count = 0

\* C9: lock misuse is fatal: release() called when the hold count is 0 raises
\* the lock-misuse error, leaves hold count, holder and queue as they were and
\* schedules no waiter.
C9_MisuseIsFatal == [][MisuseStep]_vars

\* a release() has just raised while a task is queued on the free lock
C9_Witness ==
  /\ ev.op = "release" /\ ev.out = "LockMisuse"
  /\ TheLock.waiters # <<>>
  /\ LockTimers # {}

\* the tasks in a blocking multi-part call of a multi-task-safe socket
InSequence ==
  {t \in Tasks : /\ call[t] # NoCall
                 /\ call[t].multi /\ ~call[t].noblock
                 /\ Strategy(kind, call[t].op) = "xsafe"
                 /\ pc[t] # "lock_wait"}

\* the lock of the direction is held for the whole sequence, also while the
\* task is suspended in the trampoline
LockSpansSequence ==
  \A t \in InSequence :
    /\ lock[call[t].op].holder = t
    /\ lock[call[t].op].count = call[t].held
    /\ call[t].held >= 1
    /\ pc[t] \in {"tramp_wait", "evt_block"} => call[t].held = 2

\* a frame after the first of a blocking multi-part call directly follows the
\* frame before it of the same call, unless a call with the no-block flag put a
\* frame in between
ContiguousStep ==
  (/\ ev'.op = "attempt" /\ ev'.info.at = "ok"
   /\ ev'.info.multi /\ ~ev'.info.noblock
   /\ Strategy(kind, ev'.info.op) = "xsafe"
   /\ ev'.info.idx > 1)
  => \/ wire[ev'.info.op] =
          [task |-> ev'.task, idx |-> ev'.info.idx - 1, noblock |-> FALSE]
     \/ wire[ev'.info.op].noblock

\* C3: framed-operation atomicity: a blocking multi-part send (receive) of a
\* multi-task-safe socket holds the send (receive) lock from before its first
\* frame to after its last, also while suspended in the trampoline between
\* frames, and no frame of another task's blocking call reaches the external
\* handle between two frames of the sequence.
C3_FramesAtomic == []LockSpansSequence /\ [][ContiguousStep]_vars

\* a task is suspended in the trampoline before the second frame of its
\* sequence, and another task waits for the lock with a sequence of its own
C3_Witness ==
  \E t, u \in Tasks :
    /\ t \in InSequence /\ pc[t] = "tramp_wait"
    /\ call[t].op = "send" /\ call[t].idx = 2
    /\ wire["send"] = [task |-> t, idx |-> 1, noblock |-> FALSE]
    /\ pc[u] = "lock_wait" /\ call[u].op = "send" /\ call[u].multi

\* the tasks inside trampoline(), the external readiness wait
InWait == {t \in Tasks : pc[t] = "tramp_wait"}

SingleWaiter ==
  /\ Cardinality(InWait) <= 1
  /\ in_trampoline <=> InWait # {}

\* a blocking call gets would-block while the flag is set
FindsFlagSet ==
  ev'.op = "attempt" /\ ev'.info.at = "EAGAIN" /\ ~ev'.info.noblock /\ in_trampoline

\* a task that finds the flag set does not start a second external wait: it
\* parks on the gate of its direction when the gate has no waiter, and gets the
\* double-block error when it has one, which happens on the kinds that take
\* no lock
ParkStep ==
  FindsFlagSet =>
    LET t == ev'.task
        d == ev'.info.op
    IN /\ pc'[t] # "tramp_wait"
       /\ evt[d].blocked = None
            => /\ ev'.out = "evt_block"
               /\ pc'[t] = "evt_block"
               /\ evt'[d].blocked = t
       /\ evt[d].blocked # None
            => /\ ev'.out = "DoubleBlock"
               /\ Strategy(kind, d) = "plain"
               /\ evt'[d] = evt[d]

\* C4: single active waiter: at most one task of the socket (hence of each
\* direction) is inside the external readiness wait; the in-trampoline flag is
\* set exactly while a task is inside it, also after the waiting task was
\* cancelled; a task that finds the flag set starts no second external wait:
\* it parks on the gate of its direction, or gets the double-block error when
\* that gate already has a waiter.
C4_SingleWaiter == []SingleWaiter /\ [][ParkStep]_vars

\* every task that finds the flag set parks on the gate of its direction
AlwaysParksStep == FindsFlagSet => ev'.out = "evt_block"

\* C4 as stated: the flag is set exactly while one task is inside the external
\* wait, and a task that finds it set always parks on the gate of its direction.
C4_AlwaysParks == []SingleWaiter /\ [][AlwaysParksStep]_vars

\* the task in the external wait has just been cancelled while another task
\* was parked on its gate
C4_Witness ==
  /\ ev.op = "kill" /\ ev.out = "tramp_wait"
  /\ \E u \in Tasks : pc[u] = "evt_block"
  /\ ~in_trampoline

RetryStep ==
  (ev'.op = "attempt" /\ ~ev'.info.noblock)
  => /\ ev'.out # "EAGAIN"
     /\ ev'.info.at = "ok"
          => /\ ev'.info.attempts = ev'.info.wbs + 1
             /\ ev'.info.susp = ev'.info.wbs
     /\ ev'.info.at = "EAGAIN"
          => \/ ev'.out \in {"tramp_wait", "evt_block"} /\ cur' = Hub
             \/ /\ ev'.out = "DoubleBlock"
                /\ \E u \in Tasks \ {ev'.task} : call[u] # NoCall

\* C5: retry termination: a blocking send or receive whose external attempts
\* answer would-block K times and then succeed has made K+1 attempts and has
\* suspended in the trampoline K times when it returns; every would-block of a
\* task that is alone in its call is followed by a suspension, and would-block
\* is never raised to the caller.
C5_RetryTermination == [][RetryStep]_vars

\* a blocking call has just succeeded after the most would-blocks allowed
C5_Witness ==
  /\ ev.op = "attempt" /\ ev.out = "ok" /\ ~ev.info.noblock
  /\ ev.info.wbs = MaxWB /\ ev.info.attempts = MaxWB + 1 /\ ev.info.susp = MaxWB

\* C6: capability enforcement: a call in the direction the socket type does
\* not support raises unsupported-operation (ENOTSUP) without suspending.
C6_Unsupported ==
  ev.op = "unsupported" => ev.out = "ENOTSUP" /\ cur = ev.task

Exceptions ==
  {"ZMQError", "EAGAIN", "NameError", "TypeError", "ENOTSUP", "DoubleBlock",
   "AssertionError", "IndexError", "LockMisuse", "Killed"}

\* a call that returns, returns as the oldest call not yet returned
InTurnStep ==
  (ev'.op = "attempt" /\ ev'.out = "ok") => Head(pending) = ev'.task

\* every task has made its call and the call has returned
AllReturned == \A t \in Tasks : call[t] = NoCall /\ left[t] = 0

\* C7: no starvation: tasks that all make a blocking send (or all a blocking
\* receive) on a multi-task-safe socket that gets ready and stays ready all
\* complete their call, without an exception, in the order in which they
\* called.
C7_NoStarvation ==
  /\ <>[]AllReturned
  /\ [](ev.out \notin Exceptions)
  /\ [][InTurnStep]_vars

\* every task is in its call and the socket is not ready yet: one task is in
\* the external wait and the others are queued for the lock
C7_Witness ==
  /\ ext.mode = "edge" /\ ext.ready = {}
  /\ \A t \in Tasks : call[t] # NoCall
  /\ InWait # {}
  /\ Len(lock[ext.dir].waiters) = NT - 1

DoubleBlockStep ==
  ev'.op = "trampoline" =>
    LET t == ev'.task
        d == ev'.info
    IN /\ evt[d].blocked # None
         => /\ ev'.out = "DoubleBlock"
            /\ cur' = t /\ pc'[t] = "run"
            /\ evt' = evt
            /\ timers' = timers
            /\ in_trampoline' = in_trampoline
       /\ ev'.out = "DoubleBlock" => evt[d].blocked \notin {None, t}

\* C10: double block is fatal: when a task is recorded as the waiter of a
\* gate, suspended in block() or in the external wait, the entry of a second
\* task into the gate raises the double-block error without suspending it and
\* leaves the waiter record and the pending wake of the first task as they are.
C10_DoubleBlock == [][DoubleBlockStep]_vars

\* the double-block error has just been raised on a gate whose waiter is
\* suspended in block() with a wake pending
C10_Witness ==
  /\ ev.op = "trampoline" /\ ev.out = "DoubleBlock"
  /\ LET e == evt[ev.info]
     IN /\ e.blocked # None /\ pc[e.blocked] = "evt_block"
        /\ e.wakeupper
        /\ Timer(e.blocked, EvTag(ev.info)) \in BagToSet(timers)

\* the scheduled switches that the wake() of gate d asked for
WakeTimers(d) == {tm \in BagToSet(timers) : tm.tag = EvTag(d)}

\* a gate has at most one scheduled switch, and the hub holds one copy of it
OneWakePending ==
  \A d \in Dirs :
    /\ Cardinality(WakeTimers(d)) <= 1
    /\ \A tm \in WakeTimers(d) : CopiesIn(tm, timers) = 1

\* what each wake() returns and schedules
WakeStep ==
  ev'.op = "wake" =>
    LET d == ev'.info
        e == evt[d]
    IN /\ (e.blocked = None \/ e.wakeupper)
         => /\ ev'.out = "false"
            /\ timers' = timers
            /\ evt' = evt
       /\ (e.blocked # None /\ ~e.wakeupper)
         => /\ ev'.out = "true"
            /\ timers' = timers (+) SetToBag({Timer(e.blocked, EvTag(d))})
            /\ evt' = [evt EXCEPT ![d].wakeupper = TRUE]

\* the resumption that a wake() scheduled ends the block cycle: nothing is
\* left of the wake() calls of the cycle
WakeResumesOnce ==
  (ev'.op = "resume" /\ ev'.out \in {"evt_send", "evt_recv"})
  => LET d == ev'.info.dir
     IN /\ ev'.out = EvTag(d)
        /\ evt[d] = [blocked |-> ev'.task, wakeupper |-> TRUE]
        /\ evt'[d] = NewEvent
        /\ \A tm \in BagToSet(timers') : tm.tag # EvTag(d)

\* C11: wake idempotence: in one block cycle of a _SimpleEvent the first wake()
\* returns true and schedules one switch to the waiter; every later wake()
\* before the resumption, and every wake() with no recorded waiter, returns
\* false and schedules nothing; the scheduled switch resumes the waiter once.
C11_WakeIdempotent ==
  /\ []OneWakePending
  /\ [][WakeStep]_vars
  /\ [][WakeResumesOnce]_vars

\* a second wake() of the cycle has just returned false while the switch that
\* the first one scheduled is still pending
C11_Witness ==
  /\ ev.op = "wake" /\ ev.out = "false"
  /\ evt[ev.info].blocked # None /\ evt[ev.info].wakeupper
  /\ WakeTimers(ev.info) # {}

\* a scheduled switch of a gate is for the task the gate records, which is
\* suspended in the scope of that gate, and the gate holds it as its wakeupper
NoStaleWake ==
  \A d \in Dirs :
    /\ \A tm \in WakeTimers(d) :
         /\ evt[d] = [blocked |-> tm.task, wakeupper |-> TRUE]
         /\ pc[tm.task] \in {"tramp_wait", "evt_block"}
         /\ call[tm.task].op = d
    /\ evt[d].wakeupper => WakeTimers(d) # {}

\* the end of a block scope clears the waiter record and cancels the wake
ScopeEndStep ==
  \A d \in Dirs :
    (evt[d].blocked # None /\ evt'[d].blocked # evt[d].blocked)
    => /\ evt'[d] = NewEvent
       /\ cur' = evt[d].blocked
       /\ \A tm \in BagToSet(timers') : tm.tag # EvTag(d)

\* a task is resumed by the scheduled switch of a gate only in the scope of
\* that gate
WakeResumesInScope ==
  \A t \in Tasks :
    (cur = Hub /\ cur' = t /\ pc[t] \notin {"tramp_wait", "evt_block"})
    => \A tm \in BagToSet(timers) :
         (tm.task = t /\ CopiesIn(tm, timers') < CopiesIn(tm, timers))
         => tm.tag \notin {"evt_send", "evt_recv"}

\* C12: no stale wake: the end of a block scope of a _SimpleEvent (resumption
\* by the wake, by readiness of the descriptor, or an exception thrown into the
\* task) clears the waiter record and cancels the scheduled wake; a scheduled
\* wake exists only for the recorded waiter while it is suspended in the scope,
\* so it resumes no task in a later cycle or at another suspension point.
C12_NoStaleWake ==
  /\ []NoStaleWake
  /\ [][ScopeEndStep]_vars
  /\ [][WakeResumesInScope]_vars

\* readiness of the descriptor, or an exception, has just ended a scope whose
\* wake was scheduled and not yet delivered
C12_Witness ==
  /\ ev.op \in {"resume", "kill"} /\ ev.out \in {"fd", "tramp_wait", "evt_block"}
  /\ ev.info.cancel
  /\ evt[ev.info.dir] = NewEvent

\* the tasks parked in block() of a gate
Parked == {t \in Tasks : pc[t] = "evt_block"}

\* C13: no lost wakeup for parked tasks: whenever every task is suspended, a
\* task parked on a gate has a task inside the external wait or a wake
\* scheduled for it.
C13_NoLostWakeup ==
  cur = Hub =>
    \A t \in Parked : InWait # {} \/ TimersOf(t) # {}

\* an external attempt of a blocking call of a multi-task-safe socket fails
\* with an error other than would-block
ErrorAttempt ==
  /\ ev'.op = "attempt" /\ ev'.info.at = "err"
  /\ ~ev'.info.noblock
  /\ Strategy(kind, ev'.info.op) = "xsafe"

\* the error is raised from that attempt; the lock of the direction, which the
\* call held, is free again with its queue as it is; the waiter records of both
\* gates and the in-trampoline flag are untouched
AbortCore ==
  LET t == ev'.task
      d == ev'.info.op
  IN /\ ev'.out = "ZMQError"
     /\ ev'.info.attempts = ev'.info.wbs + 1
     /\ pc'[t] = "run" /\ cur' = t /\ call'[t] = NoCall
     /\ in_trampoline' = in_trampoline
     /\ lock[d].holder = t /\ lock[d].count = call[t].held
     /\ lock'[d] = [NewLock EXCEPT !.waiters = lock[d].waiters]
     /\ lock'[Opp(d)] = lock[Opp(d)]
     /\ evt'[d] = evt[d] /\ evt[d].blocked # t
     /\ evt'[Opp(d)].blocked = evt[Opp(d)].blocked

\* the finally clause of the attempt wakes the gate of the opposite direction
AbortStep ==
  ErrorAttempt =>
    LET d == ev'.info.op
        w == wake(evt[Opp(d)])
        r == release([lock[d] EXCEPT !.count = 1])
    IN /\ AbortCore
       /\ evt'[Opp(d)] = w.evt
       /\ timers' = ScheduleAll(ScheduleAll(timers, w.sched, EvTag(Opp(d))),
                                r.wake, "lock")

\* the gates are as they were, pending wakes included
AbortSilentStep == ErrorAttempt => AbortCore /\ evt' = evt

\* C14: abort on protocol error: an error other than would-block of an external
\* attempt of a blocking call on a multi-task-safe socket is raised from that
\* attempt with no further attempt and no trampoline entry; the lock of the
\* direction is released with its queue kept, the waiter records of both gates
\* and the in-trampoline flag are unchanged, and the gate of the opposite
\* direction has been woken: a waiter recorded there has a pending wake.
C14_AbortOnError == [][AbortStep]_vars

\* C14 as stated: after the error both gates are as before, pending wakes
\* included.
C14_NoSideEffects == [][AbortSilentStep]_vars

\* a blocking call has just failed on its second attempt while a task was
\* queued for its lock and a task is recorded on the opposite gate
C14_Witness ==
  /\ ev.op = "attempt" /\ ev.info.at = "err" /\ ev.out = "ZMQError"
  /\ ~ev.info.noblock /\ Strategy(kind, ev.info.op) = "xsafe"
  /\ ev.info.wbs = MaxWB
  /\ lock[ev.info.op].waiters # <<>>
  /\ evt[Opp(ev.info.op)].blocked # None /\ evt[Opp(ev.info.op)].wakeupper

\* a blocking send or receive of a multi-task-safe socket succeeds: the gate of
\* the opposite direction has been woken when the call returns
AlwaysWakeStep ==
  (/\ ev'.op = "attempt" /\ ev'.info.at = "ok"
   /\ ~ev'.info.noblock
   /\ Strategy(kind, ev'.info.op) = "xsafe")
  => LET o == Opp(ev'.info.op)
         w == wake(evt[o])
     IN /\ evt'[o] = w.evt
        /\ evt[o].blocked # None
             => /\ evt'[o] = [blocked |-> evt[o].blocked, wakeupper |-> TRUE]
                /\ Timer(evt[o].blocked, EvTag(o)) \in BagToSet(timers')
                /\ pc'[evt[o].blocked] \in {"tramp_wait", "evt_block"}

\* C15: always-wake policy on the locked path: when a blocking send on a
\* multi-task-safe socket succeeds, wake() has been called on the receive gate
\* before the send returns, whatever the readiness of the socket, so a receiver
\* recorded on that gate, parked or in the external wait, has a pending wake;
\* likewise a successful blocking receive wakes the send gate.
C15_AlwaysWake == [][AlwaysWakeStep]_vars

\* a blocking receive has just succeeded while a sender is in the external
\* wait: the sender has a wake pending
C15_Witness ==
  /\ ev.op = "attempt" /\ ev.info.at = "ok" /\ ev.info.op = "recv"
  /\ ~ev.info.noblock /\ Strategy(kind, "recv") = "xsafe"
  /\ evt["send"].blocked # None /\ evt["send"].wakeupper
  /\ pc[evt["send"].blocked] = "tramp_wait"
  /\ Timer(evt["send"].blocked, "evt_send") \in BagToSet(timers)

\* a call with the no-block flag on a multi-task-safe socket does not suspend,
\* leaves the locks alone and gives the caller the result of its one attempt
NoBlockStep ==
  (/\ ev'.op = "attempt" /\ ev'.info.noblock
   /\ Strategy(kind, ev'.info.op) = "xsafe")
  => /\ cur' = ev'.task
     /\ pc'[ev'.task] \notin Suspended
     /\ lock' = lock
     /\ ev'.info.at = "ok" => ev'.out \in {"ok", "enter"}
     /\ ev'.info.at = "EAGAIN" => ev'.out = "EAGAIN"
     /\ ev'.info.at = "err" => ev'.out = "ZMQError"

\* C16: explicit-check policy on the no-block path: a send or receive with the
\* no-block flag on a multi-task-safe socket never suspends, never takes the
\* lock of its direction, and returns the result of its single external attempt
\* to the caller, also when a task is recorded on a gate.
C16_NoBlockReturns == [][NoBlockStep]_vars

\* the hold count is not negative, it is positive exactly when a holder is
\* recorded, and the holder is not in the queue
LockStateInv ==
  /\ TheLock.count >= 0
  /\ TheLock.count > 0 <=> TheLock.holder # None
  /\ TheLock.holder \notin {w \in Tasks : \E i \in DOMAIN TheLock.waiters :
                                            TheLock.waiters[i] = w}

\* with a queue, the task that becomes holder is the head of the queue, which
\* leaves the queue; neither assert of acquire() fails
NextHolderStep ==
  /\ (/\ lock'["send"].holder # TheLock.holder
      /\ lock'["send"].holder # None
      /\ TheLock.waiters # <<>>)
     => /\ TheLock.count = 0
        /\ lock'["send"].holder = Head(TheLock.waiters)
        /\ lock'["send"].waiters = Tail(TheLock.waiters)
        /\ lock'["send"].count = 1
  /\ ev'.out \notin {"AssertionError", "IndexError"}

\* C17: state invariant of _QueueLock: for any sequence of acquire() and
\* release() calls by any tasks, failing releases and releases by tasks that do
\* not hold the lock included, the hold count is never negative, it is positive
\* exactly when a holder is recorded, and with hold count 0 and a non-empty
\* queue the next task to become holder is the head of the queue.
C17_LockInvariant == []LockStateInv /\ [][NextHolderStep]_vars

\* a release() by a task that was not the holder has freed the lock under the
\* task that acquired it, with a task queued
C17_Witness ==
  /\ TheLock.count = 0 /\ TheLock.holder = None
  /\ TheLock.waiters # <<>>
  /\ \E u \in Tasks : depth[u] > 0

\* every task is suspended or has ended, and the hub has nothing to run
Quiet == cur = Hub /\ timers = EmptyBag

\* C18: quiescence while not ready: with a task in a blocking send and a task
\* in a blocking receive on a full-duplex multi-task-safe socket that keeps
\* answering would-block and never becomes ready, the system reaches a state
\* in which the tasks stay suspended with no wake pending.
C18_Quiescence == <>[]Quiet

\* the kinds whose send and recv are the multi-task-safe ones
MultiTaskSafe == \A d \in Dirs : Strategy(kind, d) # "plain"

\* the task recorded on a gate holds the lock of the direction of the gate
WaiterHoldsLock ==
  \A d \in Dirs :
    evt[d].blocked # None
    => /\ lock[d].holder = evt[d].blocked
       /\ pc[evt[d].blocked] \in {"tramp_wait", "evt_block"}
       /\ call[evt[d].blocked].op = d

\* C19: no double-block on a multi-task-safe socket: whatever blocking and
\* no-block, single and multi-part calls the tasks make, and also when a
\* suspended task is cancelled, the double-block error is never raised: the
\* task recorded on a gate is the holder of the lock of that direction.
C19_NoDoubleBlock ==
  MultiTaskSafe => (ev.out # "DoubleBlock" /\ WaiterHoldsLock)

\* a sender is in the external wait, a second sender is queued for the send
\* lock and a receiver is parked on the receive gate
C19_Witness ==
  /\ MultiTaskSafe
  /\ \E a, b, c \in Tasks :
       /\ evt["send"].blocked = a /\ pc[a] = "tramp_wait"
       /\ pc[b] = "lock_wait" /\ call[b].op = "send"
       /\ evt["recv"].blocked = c /\ pc[c] = "evt_block"

\* C20: cancellation of a queued lock waiter keeps the lock usable: also when
\* a task suspended in acquire() was cancelled, every task suspended in
\* acquire() gets the lock, provided the lock is released again and again.
C20_LockStaysUsable ==
  []<>(TheLock.count = 0)
  => \A t \in Tasks : (pc[t] = "lock_wait") ~> (pc[t] # "lock_wait")

====
